---- MODULE Spec2Model ----
(***************************************************************************)
(* A model of the go-ssz decoder (decode.go) and of the hand-unrolled      *)
(* hash-tree-root helpers of the experiment package (pack, merkleize,      *)
(* bitwiseMerkleize, mixInLength, bitlistRoot).                            *)
(*                                                                         *)
(* Every entry point is a pure function of its arguments (and, for        *)
(* merkleize, of the memory its slices point into).  Each one is an        *)
(* operator computed the way the Go code computes it, and each has a       *)
(* specification whose initial states draw the arguments from bounded      *)
(* sets and whose single action performs the call.  The decoders of        *)
(* makeCompositeSliceDecoder and makeStructDecoder are modelled a second   *)
(* time step by step, with their loop variables in the state.              *)
(***************************************************************************)
EXTENDS Integers, Sequences, FiniteSets, TLC

VARIABLES
    pc,                 \* "start" before the call, "done" after it
    typ,                \* Decode: the type the target points to
    orig,               \* Decode: the value whose encoding the input was cut from
    input,              \* Decode: the input slice, [arr, len]
    val,                \* Decode: what was passed as val: "nil", "nonptr", "nilptr", "ptr"
    slot,               \* Decode: the value val points to
    ret,                \* Decode: "nil", "error" or "panic" once returned
    calls,              \* Decode: [lookups, decoders] invoked by the call
    serializedItems,    \* pack: the argument
    packed,             \* pack: the returned chunks
    mem,                \* merkleize: the backing arrays, mem[b] a byte sequence
    mem0,               \* merkleize: the backing arrays as they were before the call
    chunks,             \* merkleize: the argument, a sequence of slice headers
    root,               \* merkleize: the returned root
    bfield,             \* bitlistRoot: the bitlist, its serialized bytes
    maxCapacity,        \* bitlistRoot: the declared capacity
    blRoot,             \* bitlistRoot: [err, root] once returned
    firstOffset,        \* composite slice decoder: the local firstOffset
    currentIndex,       \* composite slice decoder: the local currentIndex
    currentOffset,      \* composite slice decoder: the local currentOffset
    spin,               \* composite slice decoder: parity of the loop passes made
    fieldIndex,         \* struct decoder: the local i, the field to decode next (from 0)
    fieldOffset,        \* struct decoder: the local offsetIndex
    consumed            \* struct decoder: the int returned

vars == <<pc, typ, orig, input, val, slot, ret, calls, serializedItems, packed,
          mem, mem0, chunks, root, bfield, maxCapacity, blRoot,
          firstOffset, currentIndex, currentOffset, spin,
          fieldIndex, fieldOffset, consumed>>

decodeVars == <<typ, orig, input, val, slot, ret, calls>>
packVars == <<serializedItems, packed>>
merkleVars == <<mem, mem0, chunks, root>>
bitlistVars == <<bfield, maxCapacity, blRoot>>
loopVars == <<firstOffset, currentIndex, currentOffset, spin>>
structVars == <<fieldIndex, fieldOffset, consumed>>

\* The value a variable holds in a specification that does not use it.
Unused == <<>>

IdleDecode ==
    /\ typ = Unused /\ orig = Unused /\ input = Unused /\ val = Unused
    /\ slot = Unused /\ ret = Unused /\ calls = Unused

IdlePack == serializedItems = Unused /\ packed = Unused

IdleMerkle == mem = Unused /\ mem0 = Unused /\ chunks = Unused /\ root = Unused

IdleBitlist == bfield = Unused /\ maxCapacity = Unused /\ blRoot = Unused

IdleLoop ==
    /\ firstOffset = Unused /\ currentIndex = Unused
    /\ currentOffset = Unused /\ spin = Unused

IdleStruct == fieldIndex = Unused /\ fieldOffset = Unused /\ consumed = Unused

----------------------------------------------------------------------------
\* Sequences of bytes.

BytesPerChunk == 32

Min(a, b) == IF a < b THEN a ELSE b

Zeros(n) == [i \in 1..n |-> 0]

\* make([]byte, BytesPerChunk)
ZeroChunk == Zeros(BytesPerChunk)

RECURSIVE Flatten(_)
Flatten(runs) ==
    IF runs = <<>> THEN <<>> ELSE Head(runs) \o Flatten(Tail(runs))

\* copy(dst, src): the first min(len(dst), len(src)) bytes of dst are src's.
Copy(dst, src) ==
    [i \in 1..Len(dst) |-> IF i <= Len(src) THEN src[i] ELSE dst[i]]

----------------------------------------------------------------------------
\* SHA-256.  The digest is an injected function; the model takes a
\* collision-free one.  Digest byte k is the Cantor pairing of input bytes
\* 2k-1 and 2k plus one, so two 64-byte inputs have the same digest only if
\* they are equal, and the digest of zeros is not zeros.  Digest "bytes" are
\* symbols that may exceed 255.

Pair(a, b) == ((a + b) * (a + b + 1)) \div 2 + b + 1

hash(data) ==
    [k \in 1..BytesPerChunk |->
        Pair(IF 2 * k - 1 <= Len(data) THEN data[2 * k - 1] ELSE 0,
             IF 2 * k <= Len(data) THEN data[2 * k] ELSE 0)]

mixInLength(r, length) == hash(r \o length)

----------------------------------------------------------------------------
\* pack

pack(items) ==
    LET areAllEmpty == \A i \in 1..Len(items) : items[i] = <<>>
        \* orderedItems = append(orderedItems, item...) for every item
        orderedItems == Flatten(items)
        numItems == Len(orderedItems)
        \* for i := 0; i < numItems; i += BytesPerChunk: orderedItems[i:j]
        n == (numItems + BytesPerChunk - 1) \div BytesPerChunk
        cut == [k \in 1..n |->
                   SubSeq(orderedItems, BytesPerChunk * (k - 1) + 1,
                          Min(BytesPerChunk * k, numItems))]
    IN  IF Len(items) = 0 \/ areAllEmpty THEN <<ZeroChunk>>
        ELSE IF Len(items[1]) = BytesPerChunk THEN items
        ELSE [k \in 1..n |->
                 \* lastChunk = append(lastChunk, 0) while shorter than a chunk
                 IF k = n THEN cut[k] \o Zeros(BytesPerChunk - Len(cut[k]))
                 ELSE cut[k]]

\* Bounds of the pack specification.
MaxRuns == 2
MaxFill == 1

RunLens == {0, 1, 31, 32, 33, 64}

\* A byte run of n bytes: all zero (f = 0) or a pattern that depends on the
\* position and on f.
Run(n, f) == [j \in 1..n |-> IF f = 0 THEN 0 ELSE ((j + f) % 3) + 1]

Runs == {Run(n, f) : n \in RunLens, f \in 0..MaxFill}

RunLists == UNION {[1..k -> Runs] : k \in 0..MaxRuns}

InitPack ==
    /\ pc = "start"
    /\ serializedItems \in RunLists
    /\ packed = Unused
    /\ IdleDecode /\ IdleMerkle /\ IdleBitlist /\ IdleLoop /\ IdleStruct

PackCall ==
    /\ pc = "start"
    /\ pc' = "done"
    /\ packed' = pack(serializedItems)
    /\ UNCHANGED <<serializedItems, decodeVars, merkleVars, bitlistVars,
                 loopVars, structVars>>

NextPack == PackCall

SpecPack == InitPack /\ [][NextPack]_vars

\* The padding that brings n bytes to a multiple of a chunk, a whole chunk
\* when n = 0.
PadLen(n) ==
    IF n = 0 THEN BytesPerChunk
    ELSE (BytesPerChunk - (n % BytesPerChunk)) % BytesPerChunk

\* C8: pack returns chunks of exactly 32 bytes whose concatenation is the
\* flattened input followed by the fewest zero bytes that reach a multiple of
\* 32 (one all-zero chunk when the flattened input is empty), for every
\* sequence of byte runs.
C8_PackAgreesWithReference ==
    pc = "done" =>
        LET flat == Flatten(serializedItems)
        IN  /\ \A k \in 1..Len(packed) : Len(packed[k]) = BytesPerChunk
            /\ Flatten(packed) = flat \o Zeros(PadLen(Len(flat)))

----------------------------------------------------------------------------
\* merkleize, on Go slices.  A slice is a header [buf, off, len, cap] into
\* the backing array m[buf]: its bytes are m[buf][off+1 .. off+len], and
\* append may write up to m[buf][off+cap].

Read(m, s) == SubSeq(m[s.buf], s.off + 1, s.off + s.len)

\* append(s, t...): [m, data], the memory afterwards and the bytes of the
\* slice returned.  With room in s's backing array the bytes of t are written
\* behind s, in place; otherwise a new array is allocated and m is untouched.
AppendSlices(m, s, t) ==
    LET tdata == Read(m, t)
        data == Read(m, s) \o tdata
    IN  IF s.len + t.len <= s.cap
        THEN [m |-> [m EXCEPT ![s.buf] =
                        [j \in 1..Len(m[s.buf]) |->
                            IF j > s.off + s.len /\ j <= s.off + s.len + t.len
                            THEN tdata[j - s.off - s.len]
                            ELSE m[s.buf][j]]],
              data |-> data]
        ELSE [m |-> m, data |-> data]

RECURSIVE isPowerOf2(_)
\* n != 0 && (n&(n-1)) == 0
isPowerOf2(n) == n = 1 \/ (n > 1 /\ n % 2 = 0 /\ isPowerOf2(n \div 2))

RECURSIVE PadChunksRepeatingLast(_, _)
PadChunksRepeatingLast(m, hdrs) ==
    IF isPowerOf2(Len(hdrs)) THEN [m |-> m, hdrs |-> hdrs]
    ELSE PadChunksRepeatingLast(
             Append(m, IF hdrs = <<>> THEN ZeroChunk ELSE Read(m, hdrs[Len(hdrs)])),
             Append(hdrs, [buf |-> Len(m) + 1, off |-> 0,
                           len |-> BytesPerChunk, cap |-> BytesPerChunk]))

RECURSIVE PadChunks(_, _)
\* for !isPowerOf2(len(chunks)) { chunks = append(chunks, make([]byte, BytesPerChunk)) }
\* Every new chunk is an array of its own, with no spare capacity.
PadChunks(m, hdrs) ==
    IF isPowerOf2(Len(hdrs)) THEN [m |-> m, hdrs |-> hdrs]
    ELSE PadChunks(Append(m, ZeroChunk),
                   Append(hdrs, [buf |-> Len(m) + 1, off |-> 0,
                                 len |-> BytesPerChunk, cap |-> BytesPerChunk]))

RECURSIVE BottomLayer(_, _, _, _)
\* The first pass of the layer loop, over the chunks themselves:
\* hash(append(hashLayer[i], hashLayer[i+1]...)) for i = 0, 2, 4, ...
\* [m, layer]: the memory afterwards and the digests.
BottomLayer(m, hdrs, i, layer) ==
    IF i > Len(hdrs) THEN [m |-> m, layer |-> layer]
    ELSE LET a == AppendSlices(m, hdrs[i], hdrs[i + 1])
         IN  BottomLayer(a.m, hdrs, i + 2, Append(layer, hash(a.data)))

RECURSIVE UpperLayers(_)
\* The later passes: every element is the slice of a digest array of its own
\* (hashedChunk[:], no spare capacity), so append copies and no memory that
\* the caller sees is written.
UpperLayers(hashLayer) ==
    IF Len(hashLayer) <= 1 THEN hashLayer
    ELSE UpperLayers([k \in 1..(Len(hashLayer) \div 2) |->
                         hash(hashLayer[2 * k - 1] \o hashLayer[2 * k])])

\* [m, root]: the memory afterwards and the root returned.
merkleize(m, hdrs) ==
    IF Len(hdrs) = 1
    THEN [m |-> m, root |-> Copy(ZeroChunk, Read(m, hdrs[1]))]
    ELSE LET p == PadChunks(m, hdrs)
         IN  IF Len(p.hdrs) = 1
             THEN [m |-> p.m, root |-> Copy(ZeroChunk, Read(p.m, p.hdrs[1]))]
             ELSE LET b == BottomLayer(p.m, p.hdrs, 1, <<>>)
                  IN  [m |-> b.m,
                       root |-> Copy(ZeroChunk, UpperLayers(b.layer)[1])]

\* Bounds of the merkleize specification.
MaxChunks == 4
SharedCells == 3

\* A chunk whose every byte is f.
Filled(f) == [j \in 1..BytesPerChunk |-> f]

\* Buffer 1 is shared: SharedCells chunks back to back, cell c filled with
\* c + 1.  Buffer 2 holds one chunk exactly.  Buffer 3 holds one chunk and a
\* chunk of spare capacity.
InitMem ==
    <<Flatten([c \in 1..SharedCells |-> Filled(c)]),
      Filled(1),
      Filled(2) \o ZeroChunk>>

\* The slices a caller can pass: a sub-slice buf[32c : 32c+32] of the shared
\* buffer (its capacity runs to the end of the buffer), or one of the two
\* single-chunk buffers.
ChunkHeaders ==
    {[buf |-> 1, off |-> BytesPerChunk * c, len |-> BytesPerChunk,
      cap |-> BytesPerChunk * (SharedCells - c)] : c \in 0..(SharedCells - 1)}
    \cup {[buf |-> 2, off |-> 0, len |-> BytesPerChunk, cap |-> BytesPerChunk],
          [buf |-> 3, off |-> 0, len |-> BytesPerChunk, cap |-> 2 * BytesPerChunk]}

ChunkLists == UNION {[1..k -> ChunkHeaders] : k \in 0..MaxChunks}

InitMerkle ==
    /\ pc = "start"
    /\ mem = InitMem
    /\ mem0 = InitMem
    /\ chunks \in ChunkLists
    /\ root = Unused
    /\ IdleDecode /\ IdlePack /\ IdleBitlist /\ IdleLoop /\ IdleStruct

MerkleizeCall ==
    /\ pc = "start"
    /\ pc' = "done"
    /\ LET r == merkleize(mem, chunks)
       IN  mem' = r.m /\ root' = r.root
    /\ UNCHANGED <<mem0, chunks, decodeVars, packVars, bitlistVars, loopVars,
                 structVars>>

NextMerkle == MerkleizeCall

SpecMerkle == InitMerkle /\ [][NextMerkle]_vars

\* The same chunk contents, every chunk in an array of its own with no spare
\* capacity.
OwnArrays(contents) ==
    [m |-> contents,
     hdrs |-> [i \in 1..Len(contents) |->
                  [buf |-> i, off |-> 0, len |-> Len(contents[i]),
                   cap |-> Len(contents[i])]]]

\* C9: merkleize returns the root of the chunks' contents, whatever the spare
\* capacity of their backing arrays and whether or not chunks are sub-slices
\* of one buffer, and leaves the contents of every chunk as they were.
C9_RootIndependentOfRepresentation ==
    pc = "done" =>
        LET before == [i \in 1..Len(chunks) |-> Read(mem0, chunks[i])]
            own == OwnArrays(before)
        IN  /\ root = merkleize(own.m, own.hdrs).root
            /\ \A i \in 1..Len(chunks) : Read(mem, chunks[i]) = before[i]

----------------------------------------------------------------------------
\* bitwiseMerkleize and bitlistRoot.

RECURSIVE Pow2(_)
Pow2(d) == IF d = 0 THEN 1 ELSE 2 * Pow2(d - 1)

RECURSIVE GetDepth(_)
\* The depth of the tree over limit leaves: the least d with 2^d >= limit.
GetDepth(limit) == IF limit <= 1 THEN 0 ELSE 1 + GetDepth((limit + 1) \div 2)

RECURSIVE ZeroHashes(_)
\* The root of a subtree of depth d whose leaves are all zero.
ZeroHashes(d) ==
    IF d = 0 THEN ZeroChunk
    ELSE hash(ZeroHashes(d - 1) \o ZeroHashes(d - 1))

RECURSIVE Subtree(_, _, _, _)
\* The root of the subtree of depth d whose first leaf has index lo (from 0):
\* leaves with index >= count are zero, and a subtree of zero leaves is its
\* precomputed root.
Subtree(leaves, count, lo, d) ==
    IF lo >= count THEN ZeroHashes(d)
    ELSE IF d = 0 THEN Copy(ZeroChunk, leaves[lo + 1])
    ELSE hash(Subtree(leaves, count, lo, d - 1)
              \o Subtree(leaves, count, lo + Pow2(d - 1), d - 1))

\* merkle.Merkleize(hasher, count, limit, leafIndexer) of the zssz library.
Merkleize(leaves, count, limit) == Subtree(leaves, count, 0, GetDepth(limit))

bitwiseMerkleizeWithoutLimitCheck(leaves, count, limit) ==
    [err |-> FALSE, root |-> Merkleize(leaves, count, limit)]

\* [err, root]
bitwiseMerkleize(leaves, count, limit) ==
    IF count > limit THEN [err |-> TRUE, root |-> ZeroChunk]
    ELSE [err |-> FALSE, root |-> Merkleize(leaves, count, limit)]

RECURSIVE PutUint(_, _)
\* The w low bytes of n, least significant first.
PutUint(n, w) == IF w = 0 THEN <<>> ELSE <<n % 256>> \o PutUint(n \div 256, w - 1)

RECURSIVE Len8(_)
\* bits.Len8: the number of bits needed to write x, 0 for x = 0.
Len8(x) == IF x = 0 THEN 0 ELSE 1 + Len8(x \div 2)

\* bitfield.Bitlist.Len: the position of the most significant set bit of the
\* last byte (the length bit), counted over the whole bitlist.
BitlistLen(b) ==
    IF Len(b) = 0 THEN 0
    ELSE LET msb == Len8(b[Len(b)])
         IN  IF msb = 0 THEN 0 ELSE 8 * (Len(b) - 1) + msb - 1

RECURSIVE TrimZeros(_)
TrimZeros(b) ==
    IF b = <<>> \/ b[Len(b)] # 0 THEN b ELSE TrimZeros(SubSeq(b, 1, Len(b) - 1))

\* bitfield.Bitlist.Bytes: the bytes with the length bit cleared and the
\* zero bytes at the end trimmed.
BitlistBytes(b) ==
    IF Len(b) = 0 THEN <<>>
    ELSE LET last == b[Len(b)]
             cleared == IF last = 0 THEN 0 ELSE last - Pow2(Len8(last) - 1)
         IN  TrimZeros([b EXCEPT ![Len(b)] = cleared])

bitlistRootFloorLimit(b, maxCap) ==
    LET limit == maxCap \div 256
        n == BitlistLen(b)
    IN  IF n = 0
        THEN LET r == bitwiseMerkleize(<<>>, 0, limit)
             IN  IF r.err THEN [err |-> TRUE, root |-> ZeroChunk]
                 ELSE [err |-> FALSE, root |-> mixInLength(r.root, ZeroChunk)]
        ELSE LET cs == pack(<<BitlistBytes(b)>>)
                 output == Copy(ZeroChunk, PutUint(n, 8))
                 r == bitwiseMerkleize(cs, Len(cs), limit)
             IN  IF r.err THEN [err |-> TRUE, root |-> ZeroChunk]
                 ELSE [err |-> FALSE, root |-> mixInLength(r.root, output)]

\* [err, root]
bitlistRoot(b, maxCap) ==
    LET limit == (maxCap + 255) \div 256
        n == BitlistLen(b)
    IN  \* bfield == nil || bfield.Len() == 0
        IF n = 0
        THEN LET r == bitwiseMerkleize(<<>>, 0, limit)
             IN  IF r.err THEN [err |-> TRUE, root |-> ZeroChunk]
                 ELSE [err |-> FALSE, root |-> mixInLength(r.root, ZeroChunk)]
        ELSE LET cs == pack(<<BitlistBytes(b)>>)
                 \* binary.Write(buf, LittleEndian, bfield.Len()); copy(output, buf)
                 output == Copy(ZeroChunk, PutUint(n, 8))
                 r == bitwiseMerkleize(cs, Len(cs), limit)
             IN  IF r.err THEN [err |-> TRUE, root |-> ZeroChunk]
                 ELSE [err |-> FALSE, root |-> mixInLength(r.root, output)]

\* Bound of the bitlistRoot specification.
MaxBitFill == 1

\* Serialized bitlists: nil, or data bytes followed by a last byte that
\* carries the length bit: 1 (no bits in it), 13 (bits 1,0,1) or 128 (seven
\* zero bits); and the bitlists of 100 bits, 12 data bytes and a last byte
\* of four zero bits under the length bit.
Bitlists ==
    {<<>>} \cup
    {Run(k, f) \o <<t>> : k \in {0, 1, 2, 31, 32, 33}, f \in 0..MaxBitFill,
                         t \in {1, 13, 128}} \cup
    {Run(12, f) \o <<16>> : f \in 0..MaxBitFill}

Capacities == {1, 16, 256, 257, 512, 1024}

InitBitlist ==
    /\ pc = "start"
    /\ bfield \in Bitlists
    /\ maxCapacity \in Capacities
    /\ blRoot = Unused
    /\ IdleDecode /\ IdlePack /\ IdleMerkle /\ IdleLoop /\ IdleStruct

BitlistRootCall ==
    /\ pc = "start"
    /\ pc' = "done"
    /\ blRoot' = bitlistRoot(bfield, maxCapacity)
    /\ UNCHANGED <<bfield, maxCapacity, decodeVars, packVars, merkleVars,
                 loopVars, structVars>>

NextBitlist == BitlistRootCall

SpecBitlist == InitBitlist /\ [][NextBitlist]_vars

\* The rule of the hashing table, from the bits.  Bit i (from 0) of a
\* serialized bitlist:
BitAt(b, i) == (b[i \div 8 + 1] \div Pow2(i % 8)) % 2

\* bit_length: the index of the highest set bit, the terminator.
BitLength(b) ==
    IF b = <<>> THEN 0
    ELSE CHOOSE n \in 0..(8 * Len(b) - 1) :
            /\ BitAt(b, n) = 1
            /\ \A i \in (n + 1)..(8 * Len(b) - 1) : BitAt(b, i) = 0

RECURSIVE BitsValue(_, _, _, _)
\* The byte whose bit j is bit lo + j of b, for the bits below n.
BitsValue(b, lo, n, j) ==
    IF j = 8 THEN 0
    ELSE (IF lo + j < n THEN BitAt(b, lo + j) * Pow2(j) ELSE 0)
         + BitsValue(b, lo, n, j + 1)

\* The bits before the terminator, eight to a byte.
DataBytes(b) ==
    LET n == BitLength(b)
    IN  [k \in 1..((n + 7) \div 8) |-> BitsValue(b, 8 * (k - 1), n, 0)]

\* pack of one byte run: the run, zero-padded, cut into chunks.
PackOne(bytes) ==
    LET padded == bytes \o Zeros(PadLen(Len(bytes)))
    IN  [k \in 1..(Len(padded) \div BytesPerChunk) |->
            SubSeq(padded, BytesPerChunk * (k - 1) + 1, BytesPerChunk * k)]

RECURSIVE TreeRoot(_)
\* Pairwise hashing of a power-of-two number of leaves.
TreeRoot(leaves) ==
    IF Len(leaves) = 1 THEN leaves[1]
    ELSE LET h == Len(leaves) \div 2
         IN  hash(TreeRoot(SubSeq(leaves, 1, h))
                  \o TreeRoot(SubSeq(leaves, h + 1, Len(leaves))))

\* merkleize(chunks, count, limit) of the specification: next_pow2(limit)
\* leaves, the ones from count on all zero.
MerkleizeRule(cs, count, limit) ==
    TreeRoot([i \in 1..Pow2(GetDepth(limit)) |->
                 IF i <= count THEN cs[i] ELSE ZeroChunk])

BitlistRule(b, maxCap) ==
    LET cs == PackOne(DataBytes(b))
    IN  hash(MerkleizeRule(cs, Len(cs), (maxCap + 255) \div 256)
             \o PutUint(BitLength(b), 8) \o Zeros(BytesPerChunk - 8))

----------------------------------------------------------------------------
\* Types and values of the decoder.
\*
\* A type is a record with its kind in k: "bool", "uint8", "uint16",
\* "uint32", "uint64", "slice" (elem), "array" (elem, n), "struct" (fields)
\* or "ptr" (elem).  A bool is a BOOLEAN, a uint8 a number, a wider unsigned
\* integer its 16-bit limbs, least significant first (0xAABBCCDD is
\* <<0xCCDD, 0xAABB>>), a slice, an array or a struct the sequence of its
\* elements or fields, a pointer <<>> when nil and <<v>> when it points to v.

Bool == [k |-> "bool"]
Uint8 == [k |-> "uint8"]
Uint16 == [k |-> "uint16"]
Uint32 == [k |-> "uint32"]
Uint64 == [k |-> "uint64"]
SliceOf(t) == [k |-> "slice", elem |-> t]
ArrayOf(t, n) == [k |-> "array", elem |-> t, n |-> n]
StructOf(fields) == [k |-> "struct", fields |-> fields]
PtrTo(t) == [k |-> "ptr", elem |-> t]

BytesPerLengthOffset == 4

isBasicType(kind) == kind \in {"bool", "uint8", "uint16", "uint32", "uint64"}

RECURSIVE IsVariableSize(_)
IsVariableSize(t) ==
    IF isBasicType(t.k) THEN FALSE
    ELSE IF t.k = "slice" THEN TRUE
    ELSE IF t.k = "struct"
         THEN \E i \in 1..Len(t.fields) : IsVariableSize(t.fields[i])
    ELSE IsVariableSize(t.elem)

RECURSIVE SumSeq(_)
SumSeq(q) == IF q = <<>> THEN 0 ELSE Head(q) + SumSeq(Tail(q))

RECURSIVE FixedSize(_)
\* fixed_size_bytes of a fixed-size type.
FixedSize(t) ==
    IF t.k \in {"bool", "uint8"} THEN 1
    ELSE IF t.k = "uint16" THEN 2
    ELSE IF t.k = "uint32" THEN 4
    ELSE IF t.k = "uint64" THEN 8
    ELSE IF t.k = "array" THEN t.n * FixedSize(t.elem)
    ELSE IF t.k = "struct"
         THEN SumSeq([i \in 1..Len(t.fields) |-> FixedSize(t.fields[i])])
    ELSE IF t.k = "ptr" THEN FixedSize(t.elem)
    ELSE 0

\* The bytes a member takes in the fixed region of its composite: its fixed
\* size, or one offset.
SlotSize(t) == IF IsVariableSize(t) THEN BytesPerLengthOffset ELSE FixedSize(t)

\* basicElementSize(typ, kind): the size of the kind when it is basic, the
\* bytes typ takes in a fixed region otherwise.
basicElementSize(t, kind) ==
    IF kind \in {"bool", "uint8"} THEN 1
    ELSE IF kind = "uint16" THEN 2
    ELSE IF kind = "uint32" THEN 4
    ELSE IF kind = "uint64" THEN 8
    ELSE SlotSize(t)

RECURSIVE Zero(_)
\* The zero value of a type.
Zero(t) ==
    IF t.k = "bool" THEN FALSE
    ELSE IF t.k = "uint8" THEN 0
    ELSE IF t.k = "uint16" THEN <<0>>
    ELSE IF t.k = "uint32" THEN <<0, 0>>
    ELSE IF t.k = "uint64" THEN <<0, 0, 0, 0>>
    ELSE IF t.k = "array" THEN [i \in 1..t.n |-> Zero(t.elem)]
    ELSE IF t.k = "struct" THEN [i \in 1..Len(t.fields) |-> Zero(t.fields[i])]
    ELSE <<>>

----------------------------------------------------------------------------
\* The input of a decoder is a Go slice [arr, len]: arr holds the bytes from
\* the start of the slice to the end of its backing array, so its capacity
\* is Len(arr) and its bytes are the first len of arr.

Bytes(in) == SubSeq(in.arr, 1, in.len)

Cap(in) == Len(in.arr)

\* input[lo:hi], legal when lo <= hi <= cap(input).
Sub(in, lo, hi) == [arr |-> SubSeq(in.arr, lo + 1, Len(in.arr)), len |-> hi - lo]

\* binary.LittleEndian.Uint16/32/64 of a buffer of 2, 4 or 8 bytes.
LittleEndian(buf) == [k \in 1..(Len(buf) \div 2) |-> buf[2 * k - 1] + 256 * buf[2 * k]]

\* What a decoder returns: the int, "ok" for a nil error, "error" for an
\* error or "panic" for a run-time panic, and the value left in the slot.
Res(n, st, v) == [n |-> n, st |-> st, v |-> v]

decodeBool(in, v) ==
    IF in.len = 0 THEN Res(0, "panic", v)
    ELSE IF in.arr[1] = 0 THEN Res(1, "ok", FALSE)
    ELSE IF in.arr[1] = 1 THEN Res(1, "ok", TRUE)
    ELSE Res(0, "error", v)

decodeUint8(in, v) ==
    IF in.len = 0 THEN Res(0, "panic", v) ELSE Res(1, "ok", in.arr[1])

decodeUint16(in, v) == Res(2, "ok", LittleEndian(Copy(Zeros(2), Bytes(in))))

decodeUint32(in, v) == Res(4, "ok", LittleEndian(Copy(Zeros(4), Bytes(in))))

decodeUint64(in, v) == Res(8, "ok", LittleEndian(Copy(Zeros(8), Bytes(in))))

decodeByteArray(in, v) == Res(in.len, "ok", Copy(v, Bytes(in)))

decodeByteSlice(in, v) == Res(in.len, "ok", Bytes(in))

RECURSIVE decoder(_, _, _)
RECURSIVE BasicSliceLoop(_, _, _, _, _, _)
RECURSIVE ArrayLoop(_, _, _, _, _, _)
RECURSIVE StructLoop(_, _, _, _, _)

\* The loop of makeBasicSliceDecoder's decoder, from byte i on.
BasicSliceLoop(t, in, v, i, elementIndex, decodeSize) ==
    LET elemSize == basicElementSize(t.elem, t.elem.k)
        size == in.len \div elemSize
    IN  IF i >= in.len
        THEN IF decodeSize < size THEN Res(0, "error", v) ELSE Res(size, "ok", v)
        \* input[i:i+elemSize] past the capacity, val.Index past the length
        ELSE IF i + elemSize > Cap(in) \/ elementIndex >= Len(v)
        THEN Res(0, "panic", v)
        ELSE LET r == decoder(t.elem, Sub(in, i, i + elemSize), v[elementIndex + 1])
                 w == [v EXCEPT ![elementIndex + 1] = r.v]
             IN  IF r.st # "ok" THEN Res(0, r.st, w)
                 ELSE BasicSliceLoop(t, in, w, i + elemSize, elementIndex + 1,
                                     decodeSize + r.n)

makeBasicSliceDecoder(t, in, v) ==
    LET elemSize == basicElementSize(t.elem, t.elem.k)
        size == in.len \div elemSize
        \* reflect.MakeSlice, reflect.Copy(newVal, val), val.Set(newVal)
        newVal == [j \in 1..size |-> IF j <= Len(v) THEN v[j] ELSE Zero(t.elem)]
    IN  BasicSliceLoop(t, in, newVal, 0, 0, 0)

\* The loop of makeArrayDecoder's decoder, from element i (from 0) on.
ArrayLoop(t, in, v, i, decodeSize, offsetIndex) ==
    LET size == t.n
        elemSize == basicElementSize(t, t.elem.k)
    IN  IF i >= size
        THEN IF decodeSize < size THEN Res(0, "error", v)
             ELSE Res(decodeSize, "ok", v)
        ELSE IF offsetIndex + elemSize > Cap(in) THEN Res(0, "panic", v)
        ELSE LET r == decoder(t.elem, Sub(in, offsetIndex, offsetIndex + elemSize),
                              v[i + 1])
                 w == [v EXCEPT ![i + 1] = r.v]
             IN  IF r.st = "panic" THEN Res(0, "panic", w)
                 ELSE IF r.st = "error" THEN Res(0, "error", w)
                 ELSE ArrayLoop(t, in, w, i + 1, decodeSize + r.n,
                                offsetIndex + elemSize)

makeArrayDecoder(t, in, v) == ArrayLoop(t, in, v, 0, 0, 0)

\* The loop of makeStructDecoder's decoder, from field i (from 1) on.
StructLoop(t, in, v, i, offsetIndex) ==
    IF i > Len(t.fields) THEN Res(offsetIndex, "ok", v)
    ELSE LET f == t.fields[i]
             elemSize == basicElementSize(f, f.k)
         IN  IF offsetIndex + elemSize > Cap(in) THEN Res(0, "panic", v)
             ELSE LET r == decoder(f, Sub(in, offsetIndex, offsetIndex + elemSize),
                                   v[i])
                      w == [v EXCEPT ![i] = r.v]
                  IN  IF r.st = "panic" THEN Res(0, "panic", w)
                      ELSE IF r.st = "error" THEN Res(0, "error", w)
                      ELSE StructLoop(t, in, w, i + 1, offsetIndex + r.n)

makeStructDecoder(t, in, v) ==
    IF in.len = 0 THEN Res(0, "ok", v) ELSE StructLoop(t, in, v, 1, 0)

\* newVal := reflect.New(elemType) is decoded into and dropped: val is left
\* as it was.
makePtrDecoder(t, in, v) ==
    LET r == decoder(t.elem, in, Zero(t.elem))
    IN  IF r.st = "ok" THEN Res(r.n, "ok", v) ELSE Res(0, r.st, v)

\* makeDecoder: the decoder of type t, applied to (input, val).  The types
\* decoded here have no slice of slices, structs or pointers, the one kind
\* that makeDecoder gives to makeCompositeSliceDecoder.
decoder(t, in, v) ==
    IF t.k = "bool" THEN decodeBool(in, v)
    ELSE IF t.k = "uint8" THEN decodeUint8(in, v)
    ELSE IF t.k = "uint16" THEN decodeUint16(in, v)
    ELSE IF t.k = "uint32" THEN decodeUint32(in, v)
    ELSE IF t.k = "uint64" THEN decodeUint64(in, v)
    ELSE IF t.k = "slice" /\ t.elem.k = "uint8" THEN decodeByteSlice(in, v)
    ELSE IF t.k = "array" /\ t.elem.k = "uint8" THEN decodeByteArray(in, v)
    ELSE IF t.k = "slice" /\ isBasicType(t.elem.k) THEN makeBasicSliceDecoder(t, in, v)
    ELSE IF t.k = "array" THEN makeArrayDecoder(t, in, v)
    ELSE IF t.k = "struct" THEN makeStructDecoder(t, in, v)
    ELSE makePtrDecoder(t, in, v)

NoCalls == [lookups |-> 0, decoders |-> 0]

DecodeWithoutNilPointerCheck(in, target, t, s) ==
    IF target = "nil" THEN [ret |-> "error", slot |-> s, calls |-> NoCalls]
    ELSE IF target = "nonptr" THEN [ret |-> "error", slot |-> s, calls |-> NoCalls]
    ELSE LET r == decoder(t, in, s)
         IN  [ret |-> IF r.st = "ok" THEN "nil" ELSE r.st,
              slot |-> r.v,
              calls |-> [lookups |-> 1, decoders |-> 1]]

\* Decode(input, val), val being nil ("nil"), a value that is no pointer
\* ("nonptr"), a nil pointer to t ("nilptr") or a pointer to a t holding s
\* ("ptr").  [ret, slot, calls]: what is returned, what the t holds
\* afterwards, and the type lookups and decoders invoked.
Decode(in, target, t, s) ==
    IF target = "nil" THEN [ret |-> "error", slot |-> s, calls |-> NoCalls]
    ELSE IF target = "nonptr" THEN [ret |-> "error", slot |-> s, calls |-> NoCalls]
    ELSE IF target = "nilptr" THEN [ret |-> "error", slot |-> s, calls |-> NoCalls]
    ELSE \* cachedSSZUtils finds a decoder for every type of the model
         LET r == decoder(t, in, s)
         IN  [ret |-> IF r.st = "ok" THEN "nil" ELSE r.st,
              slot |-> r.v,
              calls |-> [lookups |-> 1, decoders |-> 1]]

----------------------------------------------------------------------------
\* The encoder: the two-phase layout.  Fixed-size members are serialized in
\* place; a variable-size member leaves a 4-byte little-endian offset in the
\* fixed region and its bytes in the tail.

ToBytes(limbs) ==
    Flatten([k \in 1..Len(limbs) |-> <<limbs[k] % 256, limbs[k] \div 256>>])

RECURSIVE Encode(_, _)
RECURSIVE Layout(_, _, _, _, _, _)

Layout(vals, types, i, fixedRegionSize, fixed, tail) ==
    IF i > Len(vals) THEN fixed \o tail
    ELSE IF IsVariableSize(types[i])
    THEN Layout(vals, types, i + 1, fixedRegionSize,
                fixed \o PutUint(fixedRegionSize + Len(tail), BytesPerLengthOffset),
                tail \o Encode(vals[i], types[i]))
    ELSE Layout(vals, types, i + 1, fixedRegionSize,
                fixed \o Encode(vals[i], types[i]), tail)

EncodeMembers(vals, types) ==
    Layout(vals, types, 1,
           SumSeq([i \in 1..Len(types) |-> SlotSize(types[i])]), <<>>, <<>>)

Encode(v, t) ==
    IF t.k = "bool" THEN <<IF v THEN 1 ELSE 0>>
    ELSE IF t.k = "uint8" THEN <<v>>
    ELSE IF t.k \in {"uint16", "uint32", "uint64"} THEN ToBytes(v)
    ELSE IF t.k \in {"slice", "array"}
         THEN EncodeMembers(v, [i \in 1..Len(v) |-> t.elem])
    ELSE IF t.k = "struct" THEN EncodeMembers(v, t.fields)
    ELSE Encode(v[1], t.elem)

----------------------------------------------------------------------------
\* The Decode specification.

\* Bound: the bytes of spare capacity behind the input.
MaxSpare == 1

\* Container{a: Uint32, b: List(Uint16)} and its value {a = 0xAABBCCDD,
\* b = [1, 2, 3]}.
S3Type == StructOf(<<Uint32, SliceOf(Uint16)>>)
S3Value == <<(<<52445, 43707>>), <<(<<1>>), (<<2>>), (<<3>>)>>>>
S3Bytes == <<221, 204, 187, 170, 8, 0, 0, 0, 1, 0, 2, 0, 3, 0>>

\* The types decoded into, each with a value to encode.
Cases ==
    {[t |-> Bool, v |-> TRUE],
     [t |-> Bool, v |-> FALSE],
     [t |-> Uint8, v |-> 7],
     [t |-> Uint16, v |-> <<513>>],
     [t |-> Uint32, v |-> <<52445, 43707>>],
     [t |-> Uint64, v |-> <<1800, 1286, 772, 258>>],
     [t |-> ArrayOf(Uint8, 4), v |-> <<0, 1, 2, 3>>],
     [t |-> SliceOf(Uint8), v |-> <<>>],
     [t |-> SliceOf(Uint8), v |-> <<1, 2, 3>>],
     [t |-> SliceOf(Uint16), v |-> <<>>],
     [t |-> SliceOf(Uint16), v |-> <<(<<1>>), (<<2>>), (<<3>>)>>],
     [t |-> SliceOf(Bool), v |-> <<TRUE, FALSE>>],
     [t |-> ArrayOf(Uint16, 2), v |-> <<(<<1>>), (<<2>>)>>],
     [t |-> S3Type, v |-> S3Value],
     [t |-> StructOf(<<Uint16, Uint8>>), v |-> <<(<<513>>), 7>>],
     [t |-> StructOf(<<SliceOf(Uint16), SliceOf(Uint8)>>),
      v |-> <<<<(<<1>>), (<<2>>)>>, <<3>>>>],
     [t |-> PtrTo(Uint16), v |-> <<(<<513>>)>>],
     [t |-> StructOf(<<Uint8, PtrTo(Uint16)>>), v |-> <<7, <<(<<513>>)>>>>]}

\* The inputs cut from an encoding: its prefixes (itself included), it with
\* bytes behind it, and it with one byte changed.
InputBytes(enc) ==
    {SubSeq(enc, 1, c) : c \in 0..Len(enc)}
    \cup {enc \o e : e \in {<<0>>, <<1, 1>>}}
    \cup {[enc EXCEPT ![q] = b] : q \in 1..Len(enc), b \in {0, 2, 9, 100}}

Targets == {"nil", "nonptr", "nilptr", "ptr"}

InitDecode ==
    /\ pc = "start"
    /\ \E c \in Cases :
          /\ typ = c.t
          /\ orig = c.v
          /\ \E bytes \in InputBytes(Encode(c.v, c.t)), spare \in 0..MaxSpare :
                input = [arr |-> bytes \o [j \in 1..spare |-> 1], len |-> Len(bytes)]
          /\ slot = Zero(c.t)
    /\ val \in Targets
    /\ ret = Unused
    /\ calls = NoCalls
    /\ IdlePack /\ IdleMerkle /\ IdleBitlist /\ IdleLoop /\ IdleStruct

DecodeCall ==
    /\ pc = "start"
    /\ pc' = "done"
    /\ LET d == Decode(input, val, typ, slot)
       IN  ret' = d.ret /\ slot' = d.slot /\ calls' = d.calls
    /\ UNCHANGED <<typ, orig, input, val, packVars, merkleVars, bitlistVars,
                   loopVars, structVars>>

NextDecode == DecodeCall

SpecDecode == InitDecode /\ [][NextDecode]_vars

\* The call decoded into a pointer to a typ.
Decoded == pc = "done" /\ val = "ptr"

IsProperPrefix(p, q) == Len(p) < Len(q) /\ p = SubSeq(q, 1, Len(p))

\* C1: decoding a proper prefix of an encoding (the empty one included)
\* fails: Decode does not return nil.  (A panic is counted as a failure here,
\* so what violates this is a decode that succeeds.)
C1_TruncationDetected ==
    Decoded /\ IsProperPrefix(Bytes(input), Encode(orig, typ)) => ret # "nil"

\* C2: decoding more bytes than the fixed size of a fixed-size type (a bool,
\* an unsigned integer, a byte array, an array or a container of fixed-size
\* members) fails: Decode never succeeds by ignoring the extra bytes.
C2_TrailingBytesDetected ==
    Decoded /\ typ.k # "ptr" /\ ~IsVariableSize(typ) /\ input.len > FixedSize(typ)
        => ret # "nil"

\* The variable-size fields of a container, in order.
VarFields(t) ==
    SelectSeq([i \in 1..Len(t.fields) |-> i], LAMBDA i : IsVariableSize(t.fields[i]))

\* Where field i starts in the fixed region, and the size of the region.
FieldPos(t, i) == SumSeq([j \in 1..(i - 1) |-> SlotSize(t.fields[j])])
FixedRegion(t) == SumSeq([j \in 1..Len(t.fields) |-> SlotSize(t.fields[j])])

\* The 4-byte little-endian offset at byte position pos (from 0).
ReadOffset(bytes, pos) ==
    bytes[pos + 1] + 256 * (bytes[pos + 2] + 256 * (bytes[pos + 3] + 256 * bytes[pos + 4]))

\* The offsets in the fixed region of a container, one per variable field.
Offsets(t, bytes) ==
    [k \in 1..Len(VarFields(t)) |-> ReadOffset(bytes, FieldPos(t, VarFields(t)[k]))]

HasVariableField(t) == t.k = "struct" /\ VarFields(t) # <<>>

\* The bytes [lo, hi) as an input of their own.
Span(bytes, lo, hi) == [arr |-> SubSeq(bytes, lo + 1, hi), len |-> hi - lo]

\* C3: in a container with variable-size fields the i-th variable field is
\* decoded from the bytes [offset_i, offset_{i+1}), the last span ending at
\* len(input); the 14 bytes of Container{a: Uint32, b: List(Uint16)} decode
\* to a = 0xAABBCCDD, b = [1, 2, 3].
C3_VariableFieldsFromSpans ==
    Decoded /\ HasVariableField(typ) /\ Bytes(input) = Encode(orig, typ) =>
        LET bytes == Bytes(input)
            vf == VarFields(typ)
            offs == Offsets(typ, bytes)
            end(k) == IF k < Len(vf) THEN offs[k + 1] ELSE Len(bytes)
        IN  /\ ret = "nil"
            /\ \A k \in 1..Len(vf) :
                  slot[vf[k]] = decoder(typ.fields[vf[k]], Span(bytes, offs[k], end(k)),
                                        Zero(typ.fields[vf[k]])).v
            /\ (typ = S3Type /\ bytes = S3Bytes => slot = S3Value)

\* Offsets that are not non-decreasing, or below the fixed region, or beyond
\* the input, or whose first is not the size of the fixed region.
BadOffsets(offs, fixed, len) ==
    \/ offs[1] # fixed
    \/ \E k \in 1..Len(offs) : offs[k] < fixed \/ offs[k] > len
    \/ \E k \in 1..(Len(offs) - 1) : offs[k] > offs[k + 1]

\* C4: a container with variable-size fields whose offsets are invalid is
\* refused: Decode does not return nil.
C4_BadOffsetsRefused ==
    Decoded /\ HasVariableField(typ) /\ input.len >= FixedRegion(typ)
            /\ BadOffsets(Offsets(typ, Bytes(input)), FixedRegion(typ), input.len)
        => ret # "nil"

\* C5: a list of basic elements decodes to len(input)/element_size elements,
\* element j from its own element_size bytes, and an input that is no
\* multiple of element_size is refused with an error.
C5_BasicListDecoding ==
    Decoded /\ typ.k = "slice" /\ isBasicType(typ.elem.k) =>
        LET es == FixedSize(typ.elem)
            bytes == Bytes(input)
        IN  IF input.len % es # 0 THEN ret = "error"
            ELSE ret = "nil" =>
                    /\ Len(slot) = input.len \div es
                    /\ \A j \in 1..Len(slot) :
                          slot[j] = decoder(typ.elem, Span(bytes, (j - 1) * es, j * es),
                                            Zero(typ.elem)).v

\* C6: after a successful decode into a pointer slot the slot points to the
\* value decoded from the input, so that an encoding decodes to the value
\* encoded.
C6_ReferenceAllocated ==
    Decoded /\ typ.k = "ptr" /\ ret = "nil" =>
        /\ slot # <<>>
        /\ slot[1] = decoder(typ.elem, input, Zero(typ.elem)).v
        /\ (Bytes(input) = Encode(orig, typ) => slot = orig)

\* C7: Decode returns an error when val is nil, no pointer or a nil pointer,
\* whatever the input, and then no type is looked up, no decoder runs and no
\* value is written.
C7_BadTargetRefused ==
    pc = "done" /\ val \in {"nil", "nonptr", "nilptr"} =>
        /\ ret = "error"
        /\ calls = NoCalls
        /\ slot = Zero(typ)

\* Decode has returned for a nil pointer and a non-empty input that a
\* pointer to the same type decodes without error.
C7_Witness ==
    /\ pc = "done"
    /\ val = "nilptr"
    /\ ret = "error"
    /\ input.len > 0
    /\ Decode(input, "ptr", typ, Zero(typ)).ret = "nil"

----------------------------------------------------------------------------
\* The decoder that makeCompositeSliceDecoder returns, for a slice whose
\* elements are slices, structs or pointers, one step per statement group:
\* pc is "start" before the call, "offset" at the read of the first offset,
\* "loop" at the head of the for loop and "done" once it has returned.
\*
\* The function is not accepted by the Go compiler as written: firstOffset, a
\* uint64, is passed where the element decoder takes a reflect.Value.  The
\* model covers both things that statement can come to: firstOffset is
\* passed by value and stays 0, or it receives the 4-byte little-endian
\* number at the head of the input.

CompositeTypes ==
    {SliceOf(SliceOf(Uint16)), SliceOf(SliceOf(Uint8)), SliceOf(PtrTo(Uint16))}

\* The values encoded for the inputs: no element, one element, two elements.
CompositeValues(t) ==
    IF t.elem.k = "ptr" THEN {<<>>, <<(<<(<<513>>)>>)>>}
    ELSE IF t.elem.elem.k = "uint8" THEN {<<>>, <<(<<1, 2, 3>>)>>, <<(<<1>>), <<2, 3>>>>}
    ELSE {<<>>, <<(<<(<<1>>)>>), <<(<<2>>), (<<3>>)>>>>}

InitCompositeSlice ==
    /\ pc = "start"
    /\ typ \in CompositeTypes
    /\ \E v \in CompositeValues(typ) :
          /\ orig = v
          /\ \E bytes \in InputBytes(Encode(v, typ)), spare \in 0..MaxSpare :
                input = [arr |-> bytes \o [j \in 1..spare |-> 1], len |-> Len(bytes)]
    /\ val = "ptr"
    /\ slot = Zero(typ)
    /\ ret = Unused
    /\ calls = [lookups |-> 1, decoders |-> 1]
    /\ firstOffset = 0
    /\ currentIndex = 0
    /\ currentOffset = 0
    /\ spin = FALSE
    /\ IdlePack /\ IdleMerkle /\ IdleBitlist /\ IdleStruct

\* elemSize := BytesPerLengthOffset; size := len(input) / elemSize;
\* newVal := reflect.MakeSlice(val.Type(), size, size);
\* reflect.Copy(newVal, val); val.Set(newVal); currentIndex := uint64(0);
\* var firstOffset uint64
CompositeAllocate ==
    /\ pc = "start"
    /\ pc' = "offset"
    /\ LET size == input.len \div BytesPerLengthOffset
       IN  slot' = [j \in 1..size |-> IF j <= Len(slot) THEN slot[j] ELSE Zero(typ.elem)]
    /\ currentIndex' = 0
    /\ firstOffset' = 0
    /\ UNCHANGED <<typ, orig, input, val, ret, calls, currentOffset, spin,
                   packVars, merkleVars, bitlistVars, structVars>>

\* input[:BytesPerLengthOffset] with a capacity below 4: a run-time panic.
CompositeOffsetPanic ==
    /\ pc = "offset"
    /\ Cap(input) < BytesPerLengthOffset
    /\ pc' = "done"
    /\ ret' = "panic"
    /\ UNCHANGED <<typ, orig, input, val, slot, calls, loopVars,
                   packVars, merkleVars, bitlistVars, structVars>>

\* elemSSZUtils.decoder(input[:BytesPerLengthOffset], firstOffset);
\* currentOffset := firstOffset
CompositeFirstOffset ==
    /\ pc = "offset"
    /\ Cap(input) >= BytesPerLengthOffset
    /\ pc' = "loop"
    /\ firstOffset' \in {0, ReadOffset(input.arr, 0)}
    /\ currentOffset' = firstOffset'
    /\ UNCHANGED <<typ, orig, input, val, slot, ret, calls, currentIndex, spin,
                   packVars, merkleVars, bitlistVars, structVars>>

\* for currentIndex < firstOffset { if currentOffset > len(input) { return 0, err } }
CompositeOutOfBounds ==
    /\ pc = "loop"
    /\ currentIndex < firstOffset
    /\ currentOffset > input.len
    /\ pc' = "done"
    /\ ret' = "error"
    /\ UNCHANGED <<typ, orig, input, val, slot, calls, loopVars,
                   packVars, merkleVars, bitlistVars, structVars>>

\* A pass of the loop whose if is not taken: the body is over and the
\* condition is evaluated again, with no local changed.
CompositeLoopPass ==
    /\ pc = "loop"
    /\ currentIndex < firstOffset
    /\ currentOffset <= input.len
    /\ spin' = ~spin
    /\ UNCHANGED <<pc, typ, orig, input, val, slot, ret, calls, firstOffset,
                   currentIndex, currentOffset, packVars, merkleVars, bitlistVars,
                   structVars>>

\* The loop condition is false: return size, nil
CompositeReturn ==
    /\ pc = "loop"
    /\ ~(currentIndex < firstOffset)
    /\ pc' = "done"
    /\ ret' = "nil"
    /\ UNCHANGED <<typ, orig, input, val, slot, calls, loopVars,
                   packVars, merkleVars, bitlistVars, structVars>>

NextCompositeSlice ==
    \/ CompositeAllocate
    \/ CompositeOffsetPanic
    \/ CompositeFirstOffset
    \/ CompositeOutOfBounds
    \/ CompositeLoopPass
    \/ CompositeReturn

SpecCompositeSlice == InitCompositeSlice /\ [][NextCompositeSlice]_vars

\* The goroutine that runs the decoder keeps running: a statement that can
\* be executed is executed.
FairCompositeSlice == SpecCompositeSlice /\ WF_vars(NextCompositeSlice)

----------------------------------------------------------------------------
\* Over-limit detection in bitwiseMerkleize and bitlistRoot.

\* The limit bitlistRoot hashes under.
ChunkLimit(maxCap) == (maxCap + 255) \div 256

\* The 32-byte chunks that the data bits of a bitlist take once the zero
\* bytes behind the last non-zero data byte are left out: none for a bitlist
\* of no bits, one at least otherwise.
DataChunkCount(b) ==
    IF BitLength(b) = 0 THEN 0
    ELSE LET d == Len(TrimZeros(DataBytes(b)))
         IN  IF d = 0 THEN 1 ELSE (d + BytesPerChunk - 1) \div BytesPerChunk

\* C12: bitwiseMerkleize(chunks, count, limit) returns an error whenever
\* count > limit, and so bitlistRoot(b, max) returns an error for every
\* bitlist whose bit length exceeds max, max = 16 with 100 bits included.
C12_OverMaxBitlistRefused ==
    pc = "done" =>
        LET cs == PackOne(DataBytes(bfield))
            limit == ChunkLimit(maxCapacity)
        IN  /\ \A count \in 0..Len(cs) :
                  count > limit => bitwiseMerkleize(cs, count, limit).err
            /\ (BitLength(bfield) > maxCapacity => blRoot.err)

\* C12, amended: bitwiseMerkleize(chunks, count, limit) returns an error
\* exactly when count > limit, and bitlistRoot(b, max) returns an error
\* exactly when the data of b, up to its last non-zero byte, takes more than
\* ceil(max/256) chunks; a bitlist of more than max bits whose data fits in
\* that many chunks is hashed without an error.
C12_OverLimitIsOverChunkLimit ==
    pc = "done" =>
        LET cs == PackOne(DataBytes(bfield))
            limit == ChunkLimit(maxCapacity)
        IN  /\ \A count \in 0..Len(cs) :
                  bitwiseMerkleize(cs, count, limit).err <=> count > limit
            /\ (blRoot.err <=> DataChunkCount(bfield) > limit)

\* bitlistRoot has refused a bitlist of more bits than its capacity, whose
\* data takes more chunks than the limit.
C12_Witness ==
    /\ pc = "done"
    /\ BitLength(bfield) > maxCapacity
    /\ DataChunkCount(bfield) > ChunkLimit(maxCapacity)
    /\ blRoot.err

----------------------------------------------------------------------------
\* merkleize against merkleize(chunks, n, n) of the specification.

\* No chunk lies in memory that an append to another chunk may write: the
\* bytes behind a chunk, up to its capacity, hold no byte of any chunk.
Independent(hdrs) ==
    \A i, j \in 1..Len(hdrs) :
        hdrs[i].buf = hdrs[j].buf =>
            \/ hdrs[j].off + hdrs[j].len <= hdrs[i].off + hdrs[i].len
            \/ hdrs[j].off >= hdrs[i].off + hdrs[i].cap

\* C13: for every list of n >= 0 independent 32-byte chunks, merkleize
\* returns merkleize(chunks, n, n) of the specification, the root of the
\* pairwise hash tree over next_pow2(n) leaves whose leaves from n on are all
\* zero, which is also what bitwiseMerkleize(chunks, n, n) returns; one chunk
\* is returned as it is and the empty list yields the all-zero chunk.
C13_MerkleizeIsRuleAtOwnLength ==
    pc = "done" /\ Independent(chunks) =>
        LET cs == [i \in 1..Len(chunks) |-> Read(mem0, chunks[i])]
            n == Len(cs)
        IN  /\ root = MerkleizeRule(cs, n, n)
            /\ root = bitwiseMerkleize(cs, n, n).root
            /\ (n = 1 => root = cs[1])
            /\ (n = 0 => root = ZeroChunk)

\* merkleize has returned for three independent chunks, one of them with
\* spare capacity, that are not all the same: a zero leaf was added and two
\* layers were hashed.
C13_Witness ==
    /\ pc = "done"
    /\ Independent(chunks)
    /\ Len(chunks) = 3
    /\ \E i \in 1..3 : chunks[i].cap > chunks[i].len
    /\ Read(mem0, chunks[1]) # Read(mem0, chunks[3])
    /\ root # ZeroChunk

----------------------------------------------------------------------------
\* The decoder that makeStructDecoder returns, one step per field, on
\* containers whose fields are all fixed-size: pc is "start" before the
\* call, "field" at the head of the for loop and "done" once it has
\* returned.

\* The containers decoded, each with a value to encode.
FixedContainers ==
    {[t |-> StructOf(<<Uint16, Uint8>>), v |-> <<(<<513>>), 7>>],
     [t |-> StructOf(<<Uint8, Uint32, Bool>>), v |-> <<7, <<52445, 43707>>, TRUE>>],
     [t |-> StructOf(<<Bool, ArrayOf(Uint16, 2), Uint64>>),
      v |-> <<TRUE, <<(<<1>>), (<<2>>)>>, <<1800, 1286, 772, 258>>>>],
     [t |-> StructOf(<<Uint8, StructOf(<<Uint16, Uint8>>), ArrayOf(Uint8, 4)>>),
      v |-> <<7, <<(<<513>>), 9>>, <<0, 1, 2, 3>>>>],
     [t |-> StructOf(<<Uint8, PtrTo(Uint16)>>), v |-> <<7, <<(<<513>>)>>>>]}

InitStruct ==
    /\ pc = "start"
    /\ \E c \in FixedContainers :
          /\ typ = c.t
          /\ orig = c.v
          /\ \E bytes \in InputBytes(Encode(c.v, c.t)), spare \in 0..MaxSpare :
                input = [arr |-> bytes \o [j \in 1..spare |-> 1], len |-> Len(bytes)]
          /\ slot = Zero(c.t)
    /\ val = "ptr"
    /\ ret = Unused
    /\ calls = [lookups |-> 1, decoders |-> 1]
    /\ fieldIndex = 0
    /\ fieldOffset = 0
    /\ consumed = 0
    /\ IdlePack /\ IdleMerkle /\ IdleBitlist /\ IdleLoop

\* size := len(input); if size == 0 { return 0, nil }
StructEmptyInput ==
    /\ pc = "start"
    /\ input.len = 0
    /\ pc' = "done"
    /\ ret' = "nil"
    /\ consumed' = 0
    /\ UNCHANGED <<typ, orig, input, val, slot, calls, fieldIndex, fieldOffset,
                   packVars, merkleVars, bitlistVars, loopVars>>

\* i := 0; offsetIndex := 0
StructEnter ==
    /\ pc = "start"
    /\ input.len # 0
    /\ pc' = "field"
    /\ fieldIndex' = 0
    /\ fieldOffset' = 0
    /\ UNCHANGED <<typ, orig, input, val, slot, ret, calls, consumed,
                   packVars, merkleVars, bitlistVars, loopVars>>

\* The field the loop is at, its elemSize, and what its decoder returns on
\* input[offsetIndex:offsetIndex+elemSize].
FieldNow == typ.fields[fieldIndex + 1]
FieldElemSize == basicElementSize(FieldNow, FieldNow.k)
FieldResult ==
    decoder(FieldNow, Sub(input, fieldOffset, fieldOffset + FieldElemSize),
            slot[fieldIndex + 1])

\* input[offsetIndex:offsetIndex+elemSize] past the capacity of the input,
\* or a panic in the decoder of the field.
StructFieldPanic ==
    /\ pc = "field"
    /\ fieldIndex < Len(typ.fields)
    /\ \/ /\ fieldOffset + FieldElemSize > Cap(input)
          /\ slot' = slot
       \/ /\ fieldOffset + FieldElemSize <= Cap(input)
          /\ FieldResult.st = "panic"
          /\ slot' = [slot EXCEPT ![fieldIndex + 1] = FieldResult.v]
    /\ pc' = "done"
    /\ ret' = "panic"
    /\ UNCHANGED <<typ, orig, input, val, calls, structVars,
                   packVars, merkleVars, bitlistVars, loopVars>>

\* if err != nil { return 0, fmt.Errorf(...) }
StructFieldError ==
    /\ pc = "field"
    /\ fieldIndex < Len(typ.fields)
    /\ fieldOffset + FieldElemSize <= Cap(input)
    /\ FieldResult.st = "error"
    /\ slot' = [slot EXCEPT ![fieldIndex + 1] = FieldResult.v]
    /\ pc' = "done"
    /\ ret' = "error"
    /\ consumed' = 0
    /\ UNCHANGED <<typ, orig, input, val, calls, fieldIndex, fieldOffset,
                   packVars, merkleVars, bitlistVars, loopVars>>

StructFieldDecodedWithoutAdvance ==
    /\ pc = "field"
    /\ fieldIndex < Len(typ.fields)
    /\ fieldOffset + FieldElemSize <= Cap(input)
    /\ FieldResult.st = "ok"
    /\ slot' = [slot EXCEPT ![fieldIndex + 1] = FieldResult.v]
    /\ fieldOffset' = fieldOffset
    /\ fieldIndex' = fieldIndex + 1
    /\ UNCHANGED <<pc, typ, orig, input, val, ret, calls, consumed,
                   packVars, merkleVars, bitlistVars, loopVars>>

\* The field is decoded: offsetIndex += fieldDecodeSize; i++
StructFieldDecoded ==
    /\ pc = "field"
    /\ fieldIndex < Len(typ.fields)
    /\ fieldOffset + FieldElemSize <= Cap(input)
    /\ FieldResult.st = "ok"
    /\ slot' = [slot EXCEPT ![fieldIndex + 1] = FieldResult.v]
    /\ fieldOffset' = fieldOffset + FieldResult.n
    /\ fieldIndex' = fieldIndex + 1
    /\ UNCHANGED <<pc, typ, orig, input, val, ret, calls, consumed,
                   packVars, merkleVars, bitlistVars, loopVars>>

\* The loop is over: return offsetIndex, nil.  (The test i < len(fields)
\* behind the loop is never true there.)
StructReturn ==
    /\ pc = "field"
    /\ fieldIndex >= Len(typ.fields)
    /\ pc' = "done"
    /\ ret' = "nil"
    /\ consumed' = fieldOffset
    /\ UNCHANGED <<typ, orig, input, val, slot, calls, fieldIndex, fieldOffset,
                   packVars, merkleVars, bitlistVars, loopVars>>

NextStruct ==
    \/ StructEmptyInput
    \/ StructEnter
    \/ StructFieldPanic
    \/ StructFieldError
    \/ StructFieldDecoded
    \/ StructReturn

SpecStruct == InitStruct /\ [][NextStruct]_vars

\* Field j (from 1) of the container holds what its decoder makes of the
\* bytes [p_j, p_j + size_j) alone, p_j being the sum of the fixed sizes of
\* the fields before it.  The bytes are those of the input's backing array:
\* with spare capacity they may lie behind len(input).
FieldFromSpan(j) ==
    LET f == typ.fields[j]
        p == FieldPos(typ, j)
    IN  slot[j] = decoder(f, Span(input.arr, p, p + FixedSize(f)), Zero(f)).v

\* C14: decoding a container of fixed-size fields, on success the decoder
\* reports the sum of all field sizes as the bytes consumed and every field
\* i has been decoded from exactly the bytes [p_i, p_i + size_i).
C14_FixedFieldsFromSpans ==
    pc = "done" /\ ret = "nil" =>
        /\ consumed = FixedSize(typ)
        /\ \A j \in 1..Len(typ.fields) : FieldFromSpan(j)

\* C14, amended: on a non-empty input the fields are decoded in declared
\* order (at field i the fields before it are decoded, each from its bytes
\* [p_j, p_j + size_j), the others are untouched, and the decoder stands at
\* p_i), and on success the sum of all field sizes is reported; on the empty
\* input the decoder succeeds at once, reporting 0 bytes, no field decoded.
C14_FixedFieldsFromSpansUnlessEmpty ==
    /\ pc = "field" =>
          /\ fieldOffset = FieldPos(typ, fieldIndex + 1)
          /\ \A j \in 1..fieldIndex : FieldFromSpan(j)
          /\ \A j \in (fieldIndex + 1)..Len(typ.fields) :
                slot[j] = Zero(typ.fields[j])
    /\ pc = "done" /\ ret = "nil" /\ input.len > 0 =>
          /\ consumed = FixedSize(typ)
          /\ \A j \in 1..Len(typ.fields) : FieldFromSpan(j)
    /\ pc = "done" /\ input.len = 0 =>
          ret = "nil" /\ consumed = 0 /\ slot = Zero(typ)

\* A container of three fields, one of them a container or an array, has
\* been decoded from an input changed in one byte, and the decoder reported
\* the sum of the field sizes.
C14_Witness ==
    /\ pc = "done"
    /\ ret = "nil"
    /\ Len(typ.fields) = 3
    /\ \E j \in 1..3 : typ.fields[j].k \in {"struct", "array"}
    /\ Bytes(input) # Encode(orig, typ)
    /\ input.len = FixedSize(typ)
    /\ consumed = FixedSize(typ)
    /\ slot # orig

----------------------------------------------------------------------------
\* Bounds safety of Decode.

\* The input with no capacity behind its length: what a decoder that stays
\* below len(input) sees of it.
WithoutSpare(in) == [arr |-> Bytes(in), len |-> in.len]

\* C15: for every input and every type, Decode returns nil or an error, with
\* no run-time panic, and no decoder reads or slices the input at or behind
\* len(input) or indexes a collection behind its allocated length: the
\* outcome is that of the same call on the input without the bytes behind its
\* length.
C15_DecodeStaysInBounds ==
    Decoded =>
        /\ ret \in {"nil", "error"}
        /\ LET d == Decode(WithoutSpare(input), val, typ, Zero(typ))
           IN  d.ret = ret /\ d.slot = slot

====
